---- MODULE Spec2Model ----
(***************************************************************************)
(* A model of frontend/static/ui.js: the differ (diffOne, diffList), the   *)
(* patcher (create, modify, apply) and the message loop started by init.   *)
(*                                                                         *)
(* JavaScript objects are TLA+ functions from keys to values; a missing    *)
(* key reads as Undefined.  A spec node is                                 *)
(*   [tag, attributes, children] | [textContent] | [empty]                 *)
(* and a live (DOM) node is                                                *)
(*   [tagName, attrs, listeners, childNodes] | [data]                      *)
(* (a text node gets a listeners field when a listener is bound to it).    *)
(* An operation that can throw returns a record with a "throw" field that  *)
(* is None when it returned normally; the mutations it made before it      *)
(* threw are kept, as they are in the DOM.                                 *)
(***************************************************************************)
EXTENDS Integers, Sequences, FiniteSets, TLC

VARIABLES
  state,    \* init: the application state (let state)
  spec,     \* init: the previous spec (let spec)
  queue,    \* init: the message queue (let queue)
  root,     \* the live node init was given, with its live subtree
  pending,  \* callbacks registered with window.requestAnimationFrame and not yet run
  given,    \* the root node as init received it
  handle,   \* TRUE once init has returned { enqueue }
  raised,   \* what the last handler threw (None when it returned)
  last,     \* the handler that ran last, with what it was given
  script,   \* the edit script computed by the last draw
  calls,    \* DOM calls made by the last draw
  updates,  \* the messages passed to update by the last updateState, in order
  draws,    \* the number of draw() calls made by the last updateState
  prev,     \* patch harness: the spec list of the first draw
  next,     \* patch harness: the spec list of the second draw
  sent,     \* message log: every message passed to enqueue, in order
  done      \* message log: every message passed to update, in order

vars == <<state, spec, queue, root, pending, given, handle, raised, last, script,
          calls, updates, draws, prev, next, sent, done>>

-----------------------------------------------------------------------------
(* JavaScript values *)

\* undefined: what a missing property reads as
Undefined == "undefined"

\* null: eventName's result for a name that is not an event (toLowerCase
\* never yields capitals, so no event name is this value)
Null == "NULL"

\* no exception
None == "none"

\* obj[key] !== undefined (and, for the flags noop, remove and empty, which
\* are only ever set to true: obj[key] is truthy)
Has(obj, key) == key \in DOMAIN obj

\* obj[key]
Get(obj, key) == IF key \in DOMAIN obj THEN obj[key] ELSE Undefined

\* obj[key] = value
Put(obj, key, value) ==
  [x \in (DOMAIN obj) \cup {key} |-> IF x = key THEN value ELSE obj[x]]

\* delete obj[key]
Del(obj, key) == [x \in (DOMAIN obj) \ {key} |-> obj[x]]

\* The order `for (k in obj)` visits string keys: the order they were
\* inserted in.  The attribute objects given to h are written with their
\* keys in this order.
KeyOrder == <<"class", "id", "title", "onClick", "onclick", "oninput">>

\* for (const k in obj), for an attribute object: its keys, in order
Keys(obj) == SelectSeq(KeyOrder, LAMBDA k : k \in DOMAIN obj)

\* An object built by assignments (setAttr, removeListeners, addListeners
\* of diffOne) is the sequence of its properties [key, value] in the order
\* the keys were first assigned, the order `for (k in obj)` visits them;
\* {} is <<>>.
\* obj[key] = value: a new key goes last, a key already there keeps its
\* place
Assign(obj, key, value) ==
  IF \E i \in 1..Len(obj) : obj[i].key = key
  THEN [i \in 1..Len(obj) |->
          IF obj[i].key = key THEN [key |-> key, value |-> value] ELSE obj[i]]
  ELSE Append(obj, [key |-> key, value |-> value])

\* Object.keys(obj), and the keys `for (const k in obj)` visits
OwnKeys(obj) == [i \in 1..Len(obj) |-> obj[i].key]

\* for (const i in array): the indices of an array, as strings
ArrayKeys(arr) == [i \in 1..Len(arr) |-> ToString(i - 1)]

Max(a, b) == IF a > b THEN a ELSE b

-----------------------------------------------------------------------------
(* Spec constructors *)

\* Create an HTML element
h(tag, attributes, children) ==
  [tag |-> tag, attributes |-> attributes, children |-> children]

\* Create a text element
text(textContent) == [textContent |-> textContent]

\* Create an element that will be disregarded
empty == [empty |-> TRUE]

\* str.slice(2).toLowerCase() for the names with str.indexOf("on") == 0
SliceLower ==
  [onclick |-> "click", onClick |-> "click", oninput |-> "input"]

eventName(str) ==
  IF str \in DOMAIN SliceLower THEN SliceLower[str] ELSE Null

-----------------------------------------------------------------------------
(* The differ *)

RECURSIVE diffOne(_, _), diffList(_, _)

\* DiffRemoved without its test `r.attributes[attr] === undefined`: every
\* attribute of l is recorded as removed
DiffRemovedAll(l, r, keys, acc) ==
  LET F[i \in 0..Len(keys)] ==
        IF i = 0 THEN acc
        ELSE LET a == F[i - 1]
                 attr == keys[i]
                 event == eventName(attr)
             IN IF event # Null
                THEN [a EXCEPT !.removeListeners =
                        Assign(a.removeListeners, event, l.attributes[attr])]
                ELSE [a EXCEPT !.removeAttr = Append(a.removeAttr, attr)]
  IN F[Len(keys)]

\* for (const attr in l.attributes): removeAttr and removeListeners after
\* the keys `keys` of l.attributes
DiffRemoved(l, r, keys, acc) ==
  LET F[i \in 0..Len(keys)] ==
        IF i = 0 THEN acc
        ELSE LET a == F[i - 1]
                 attr == keys[i]
                 event == eventName(attr)
             IN IF Get(r.attributes, attr) = Undefined
                THEN IF event # Null
                     THEN [a EXCEPT !.removeListeners =
                             Assign(a.removeListeners, event, l.attributes[attr])]
                     ELSE [a EXCEPT !.removeAttr = Append(a.removeAttr, attr)]
                ELSE a
  IN F[Len(keys)]

\* DiffSet without its test `r.attributes[attr] !== l.attributes[attr]`:
\* every attribute of r is recorded, changed or not
DiffSetAlways(l, r, keys, acc) ==
  LET F[i \in 0..Len(keys)] ==
        IF i = 0 THEN acc
        ELSE LET a == F[i - 1]
                 attr == keys[i]
                 event == eventName(attr)
             IN IF event = Null
                THEN [a EXCEPT !.setAttr =
                        Assign(a.setAttr, attr, r.attributes[attr])]
                ELSE [a EXCEPT
                        !.removeListeners =
                          Assign(a.removeListeners, event, Get(l.attributes, attr)),
                        !.addListeners =
                          Assign(a.addListeners, event, r.attributes[attr])]
  IN F[Len(keys)]

\* for (const attr in r.attributes): setAttr, removeListeners and
\* addListeners after the keys `keys` of r.attributes
DiffSet(l, r, keys, acc) ==
  LET F[i \in 0..Len(keys)] ==
        IF i = 0 THEN acc
        ELSE LET a == F[i - 1]
                 attr == keys[i]
                 event == eventName(attr)
             IN IF r.attributes[attr] # Get(l.attributes, attr)
                THEN IF event = Null
                     THEN [a EXCEPT !.setAttr =
                             Assign(a.setAttr, attr, r.attributes[attr])]
                     ELSE [a EXCEPT
                             !.removeListeners =
                               Assign(a.removeListeners, event, Get(l.attributes, attr)),
                             !.addListeners =
                               Assign(a.addListeners, event, r.attributes[attr])]
                ELSE a
  IN F[Len(keys)]

\* children.every(e => e.noop)
EveryNoop(children) == \A i \in 1..Len(children) : Has(children[i], "noop")

\* diffOne with `r.tag === undefined` in place of `l.tag !== r.tag`: two
\* elements are compared whatever their tags
diffOneAnyTag(l, r) ==
  IF Has(l, "textContent")
  THEN IF l.textContent # Get(r, "textContent")
       THEN [replace |-> r]
       ELSE [noop |-> TRUE]
  ELSE IF Get(r, "tag") = Undefined
  THEN [replace |-> r]
  ELSE
    LET acc0 == [removeAttr |-> <<>>, setAttr |-> <<>>,
                 removeListeners |-> <<>>, addListeners |-> <<>>]
        acc1 == DiffRemoved(l, r, Keys(l.attributes), acc0)
        acc2 == DiffSet(l, r, Keys(r.attributes), acc1)
        children == diffList(l.children, r.children)
        noChildrenChange == EveryNoop(children)
        noAttributeChange ==
          Len(acc2.removeAttr) = 0 /\ Len(OwnKeys(acc2.setAttr)) = 0
    IN IF noChildrenChange /\ noAttributeChange
       THEN [noop |-> TRUE]
       ELSE [modify |->
               [removeAttr |-> acc2.removeAttr, setAttr |-> acc2.setAttr,
                removeListeners |-> acc2.removeListeners,
                addListeners |-> acc2.addListeners, children |-> children]]

\* diff two specs
diffOne(l, r) ==
  IF Has(l, "textContent")
  THEN IF l.textContent # Get(r, "textContent")
       THEN [replace |-> r]
       ELSE [noop |-> TRUE]
  ELSE IF Get(l, "tag") # Get(r, "tag")
  THEN [replace |-> r]
  ELSE
    LET acc0 == [removeAttr |-> <<>>, setAttr |-> <<>>,
                 removeListeners |-> <<>>, addListeners |-> <<>>]
        acc1 == DiffRemoved(l, r, Keys(l.attributes), acc0)
        acc2 == DiffSet(l, r, Keys(r.attributes), acc1)
        children == diffList(l.children, r.children)
        noChildrenChange == EveryNoop(children)
        noAttributeChange ==
          Len(acc2.removeAttr) = 0 /\ Len(OwnKeys(acc2.setAttr)) = 0
    IN IF noChildrenChange /\ noAttributeChange
       THEN [noop |-> TRUE]
       ELSE [modify |->
               [removeAttr |-> acc2.removeAttr, setAttr |-> acc2.setAttr,
                removeListeners |-> acc2.removeListeners,
                addListeners |-> acc2.addListeners, children |-> children]]

\* Array.from(els).filter(e => !e.empty)
removeEmpty(els) == SelectSeq(els, LAMBDA e : ~Has(e, "empty"))

\* diffList with `let rs = rs_raw`: the right list is not filtered
diffListRightUnfiltered(ls_raw, rs_raw) ==
  LET ls == removeEmpty(ls_raw)
      rs == rs_raw
      len == Max(Len(ls), Len(rs))
  IN [i \in 1..len |->
        IF i > Len(ls) THEN [create |-> rs[i]]
        ELSE IF i > Len(rs) THEN [remove |-> TRUE]
        ELSE diffOne(ls[i], rs[i])]

\* diffList with Math.min in place of Math.max: the longer list's tail
\* gets no entry
diffListNoTail(ls_raw, rs_raw) ==
  LET ls == removeEmpty(ls_raw)
      rs == removeEmpty(rs_raw)
      len == IF Len(ls) < Len(rs) THEN Len(ls) ELSE Len(rs)
  IN [i \in 1..len |-> diffOne(ls[i], rs[i])]

diffList(ls_raw, rs_raw) ==
  LET ls == removeEmpty(ls_raw)
      rs == removeEmpty(rs_raw)
      len == Max(Len(ls), Len(rs))
  IN [i \in 1..len |->
        IF i > Len(ls) THEN [create |-> rs[i]]
        ELSE IF i > Len(rs) THEN [remove |-> TRUE]
        ELSE diffOne(ls[i], rs[i])]

-----------------------------------------------------------------------------
(* The DOM calls the patcher makes *)

\* document.createElement(tag)
createElement(tag) ==
  [tagName |-> tag, attrs |-> <<>>, listeners |-> <<>>, childNodes |-> <<>>]

\* document.createTextNode(data)
createTextNode(data) == [data |-> data]

\* A listener is identified by its callback object.  Arrow(msg) is an arrow
\* function () => enqueue(msg) made at a bind; Plain(v) is any other value.
Arrow(msg) == [arrow |-> msg]
Plain(v) == [plain |-> v]

setAttribute(el, attr, value) == [el EXCEPT !.attrs = Put(@, attr, value)]

removeAttribute(el, attr) == [el EXCEPT !.attrs = Del(@, attr)]

\* Every bind makes a new arrow function, so the DOM never finds the
\* callback already registered and always appends.  A text node is an
\* EventTarget too: it holds listeners once one is registered on it.
addEventListener(el, event, callback) ==
  IF Has(el, "listeners")
  THEN [el EXCEPT !.listeners = Append(@, [type |-> event, callback |-> callback])]
  ELSE Put(el, "listeners", <<[type |-> event, callback |-> callback]>>)

\* Unregisters the listener of this type whose callback is this object.
removeEventListener(el, event, callback) ==
  IF Has(el, "listeners")
  THEN [el EXCEPT !.listeners =
          SelectSeq(@, LAMBDA x : ~(x.type = event /\ x.callback = callback))]
  ELSE el

\* el.childNodes: a text node has the property too, always empty
ChildNodes(el) == IF Has(el, "childNodes") THEN el.childNodes ELSE <<>>

appendChild(el, child) == [el EXCEPT !.childNodes = Append(@, child)]

\* el.childNodes[k].remove(), k counted from 0
removeChildAt(el, k) ==
  [el EXCEPT !.childNodes =
     SubSeq(@, 1, k) \o SubSeq(@, k + 2, Len(@))]

\* el.childNodes[k].replaceWith(child), k counted from 0
replaceChildAt(el, k, child) == [el EXCEPT !.childNodes[k + 1] = child]

\* The result of a patcher operation: the node as it is now, what was
\* thrown, and the number of DOM calls made.
Result(el, throw, n) == [el |-> el, throw |-> throw, calls |-> n]

TypeError == "TypeError"
UnmatchedChildren == "Error: unmatched children lengths"
AddingInTheMiddle == "Error: Adding in the middle of children"
UnexpectedDiff == "Error: Unexpected diff option"
\* appendChild called on a text node
HierarchyRequestError ==
  "HierarchyRequestError: Failed to execute appendChild on Node: this node type does not support this method."

-----------------------------------------------------------------------------
(* The patcher *)

RECURSIVE create(_), applyFrom(_, _, _)

\* for (const attr in spec.attributes) of create
CreateAttributes(el, attributes, keys) ==
  LET F[i \in 0..Len(keys)] ==
        IF i = 0 THEN el
        ELSE LET attr == keys[i]
                 event == eventName(attr)
                 value == attributes[attr]
             IN IF event # Null /\ event # ""
                THEN addEventListener(F[i - 1], event, Arrow(value))
                ELSE setAttribute(F[i - 1], attr, value)
  IN F[Len(keys)]

\* One round of `for (let i in children)` of create: the child made from
\* childSpec is appended, unless making it threw
CreateChild(a, c) ==
  IF c.throw # None
  THEN Result(a.el, c.throw, a.calls + c.calls)
  ELSE Result(appendChild(a.el, c.el), None, a.calls + c.calls + 1)

\* for (let i in children) of create: i runs over the indices of the
\* filtered list and reads spec.children[i]
CreateChildren(acc, nodeSpec, n) ==
  LET F[i \in 0..n] ==
        IF i = 0 THEN acc
        ELSE LET a == F[i - 1]
             IN IF a.throw # None THEN a
                ELSE CreateChild(a, create(nodeSpec.children[i]))
  IN F[n]

create(nodeSpec) ==
  IF Has(nodeSpec, "textContent")
  THEN Result(createTextNode(nodeSpec.textContent), None, 1)
  ELSE
    LET el0 == createElement(Get(nodeSpec, "tag"))
        el1 == IF Has(nodeSpec, "attributes")
               THEN CreateAttributes(el0, nodeSpec.attributes, Keys(nodeSpec.attributes))
               ELSE el0
        n1 == 1 + (IF Has(nodeSpec, "attributes")
                   THEN Cardinality(DOMAIN nodeSpec.attributes) ELSE 0)
    IN IF ~Has(nodeSpec, "children")
       THEN Result(el1, TypeError, n1)   \* Array.from(undefined)
       ELSE CreateChildren(Result(el1, None, n1), nodeSpec,
                           Len(removeEmpty(nodeSpec.children)))

\* The four loops of modify over the attributes and listeners of el.  A
\* text node has no removeAttribute and no setAttribute: the first call of
\* either throws a TypeError; it has the two listener methods.
ModifyContents(el, diff) ==
  IF /\ ~Has(el, "tagName")
     /\ (Len(diff.removeAttr) > 0 \/ Len(diff.setAttr) > 0)
  THEN Result(el, TypeError, 0)
  ELSE
  LET ra == ArrayKeys(diff.removeAttr)
      sa == diff.setAttr
      rl == diff.removeListeners
      al == diff.addListeners
      A[i \in 0..Len(ra)] ==
        IF i = 0 THEN el ELSE removeAttribute(A[i - 1], ra[i])
      B[i \in 0..Len(sa)] ==
        IF i = 0 THEN A[Len(ra)]
        ELSE setAttribute(B[i - 1], sa[i].key, sa[i].value)
      C[i \in 0..Len(rl)] ==
        IF i = 0 THEN B[Len(sa)]
        ELSE removeEventListener(C[i - 1], rl[i].key, Plain(rl[i].value))
      D[i \in 0..Len(al)] ==
        IF i = 0 THEN C[Len(rl)]
        ELSE addEventListener(D[i - 1], al[i].key, Arrow(al[i].value))
  IN Result(D[Len(al)], None, Len(ra) + Len(sa) + Len(rl) + Len(al))

\* The cursor of apply: the result so far and k, counted from 0
Cursor(el, throw, n, k) == [el |-> el, throw |-> throw, calls |-> n, k |-> k]

\* What apply leaves when its loop ends at the cursor c
Applied(c) == Result(c.el, c.throw, c.calls)

\* modify once its four loops have left m: the length check, then apply
ModifyChildren(m, children) ==
  IF m.throw # None THEN m
  ELSE IF Len(children) < Len(ChildNodes(m.el))
  THEN Result(m.el, UnmatchedChildren, m.calls)
  ELSE Applied(applyFrom(Cursor(m.el, None, m.calls, 0), children, 1))

modify(el, diff) ==
  ModifyChildren(ModifyContents(el, diff), diff.children)

\* The child modify leaves at the cursor, put back into el
Modified(acc, m) ==
  Cursor(replaceChildAt(acc.el, acc.k, m.el), m.throw, acc.calls + m.calls,
         acc.k + 1)

\* The child create made, appended to el (a Create) or put in place of the
\* child at the cursor (a Replace); appendChild throws on a text node
Created(acc, diff, c) ==
  IF c.throw # None
  THEN Cursor(acc.el, c.throw, acc.calls + c.calls, acc.k)
  ELSE IF Has(diff, "create") /\ ~Has(acc.el, "childNodes")
  THEN Cursor(acc.el, HierarchyRequestError, acc.calls + c.calls + 1, acc.k)
  ELSE IF Has(diff, "create")
  THEN Cursor(appendChild(acc.el, c.el), None, acc.calls + c.calls + 1, acc.k + 1)
  ELSE IF acc.k >= Len(ChildNodes(acc.el))
  THEN Cursor(acc.el, TypeError, acc.calls + c.calls, acc.k)
  ELSE Cursor(replaceChildAt(acc.el, acc.k, c.el), None,
              acc.calls + c.calls + 1, acc.k + 1)

\* applyStep without its branch `else if (diff.noop) {}`: a Noop entry
\* falls through to the last else
applyStepNoNoop(acc, diff) ==
  LET el == acc.el
      k == acc.k
      there == k < Len(ChildNodes(el))
  IN IF Has(diff, "remove")
     THEN IF ~there THEN Cursor(el, TypeError, acc.calls, k)
          ELSE Cursor(removeChildAt(el, k), None, acc.calls + 1, k)
     ELSE IF Has(diff, "modify")
     THEN IF ~there THEN Cursor(el, TypeError, acc.calls, k)
          ELSE Modified(acc, modify(el.childNodes[k + 1], diff.modify))
     ELSE IF Has(diff, "create") /\ there
     THEN Cursor(el, AddingInTheMiddle, acc.calls, k)
     ELSE IF Has(diff, "create") \/ Has(diff, "replace")
     THEN Created(acc, diff,
                  create(IF Has(diff, "create") THEN diff.create ELSE diff.replace))
     ELSE Cursor(el, UnexpectedDiff, acc.calls, k)

\* One round of the loop of apply, on the entry diff with the cursor at
\* acc.k.  el.childNodes[k] is undefined past the end, and calling a method
\* of undefined throws a TypeError.
applyStep(acc, diff) ==
  LET el == acc.el
      k == acc.k
      there == k < Len(ChildNodes(el))
  IN IF Has(diff, "remove")
     THEN IF ~there THEN Cursor(el, TypeError, acc.calls, k)
          ELSE Cursor(removeChildAt(el, k), None, acc.calls + 1, k)
     ELSE IF Has(diff, "modify")
     THEN IF ~there THEN Cursor(el, TypeError, acc.calls, k)
          ELSE Modified(acc, modify(el.childNodes[k + 1], diff.modify))
     ELSE IF Has(diff, "create") /\ there
     THEN Cursor(el, AddingInTheMiddle, acc.calls, k)
     ELSE IF Has(diff, "create") \/ Has(diff, "replace")
     THEN Created(acc, diff,
                  create(IF Has(diff, "create") THEN diff.create ELSE diff.replace))
     ELSE IF Has(diff, "noop")
     THEN Cursor(el, None, acc.calls, k + 1)
     ELSE Cursor(el, UnexpectedDiff, acc.calls, k)

\* The loop of apply from entry i (counted from 1) of childrenDiff
applyFrom(acc, childrenDiff, i) ==
  IF i > Len(childrenDiff) \/ acc.throw # None THEN acc
  ELSE applyFrom(applyStep(acc, childrenDiff[i]), childrenDiff, i + 1)

apply(el, childrenDiff) ==
  Applied(applyFrom(Cursor(el, None, 0, 0), childrenDiff, 1))

-----------------------------------------------------------------------------
(* The loop of init, as pure steps *)

\* draw() with `spec = newSpec;` ahead of the apply call
DrawnEarly(oldSpec, newSpec, d, r) ==
  [root |-> r.el, spec |-> newSpec,
   throw |-> r.throw, script |-> d, calls |-> r.calls]

\* draw() after apply(root, enqueue, diffList(spec, newSpec)) left r:
\* spec = newSpec is only reached when apply returned
Drawn(oldSpec, newSpec, d, r) ==
  [root |-> r.el,
   spec |-> IF r.throw = None THEN newSpec ELSE oldSpec,
   throw |-> r.throw, script |-> d, calls |-> r.calls]

DrawScript(rootNode, oldSpec, newSpec, d) ==
  Drawn(oldSpec, newSpec, d, apply(rootNode, d))

\* draw(), given what view(state) returned or threw: the new root and
\* spec, what was thrown, the edit script and the DOM calls made
draw(rootNode, oldSpec, viewed) ==
  IF viewed.throw # None
  THEN [root |-> rootNode, spec |-> oldSpec, throw |-> viewed.throw,
        script |-> <<>>, calls |-> 0]
  ELSE DrawScript(rootNode, oldSpec, viewed.spec,
                  diffList(oldSpec, viewed.spec))

-----------------------------------------------------------------------------
(* The application given to init: initialState, update and view.  Message  *)
(* values are named objects: TypeOf gives an object's content, and two     *)
(* names with the same content are equal copies that are not identical.    *)

TypeOf ==
  [inc |-> "inc", incCopy |-> "inc", reset |-> "reset",
   chain |-> "chain", boom |-> "boom"]

Messages == DOMAIN TypeOf

A == text("a")
B == text("b")

\* view(s), for the application states 0, 1, ...; the states past the end
\* of the table are those whose view throws
ViewTable ==
  << <<>>,
     << h("div", [id |-> "x", onclick |-> "inc"], <<A>>) >>,
     << h("div", [class |-> "y", onclick |-> "reset"], <<A, B>>) >>,
     << h("div", [class |-> "y", onclick |-> "incCopy"], <<A, B>>) >>,
     << empty, h("span", <<>>, <<A, empty>>), B >>,
     << h("p", <<>>, <<empty, A>>) >> >>

NStates == Len(ViewTable) + 1

ViewError == "Error: view"
UpdateError == "Error: update"

view(s) ==
  IF s < Len(ViewTable)
  THEN [spec |-> ViewTable[s + 1], throw |-> None]
  ELSE [spec |-> <<>>, throw |-> ViewError]

\* update(s, msg, enqueue): the new state, the messages it passed to
\* enqueue, and what it threw
update(s, msg) ==
  CASE TypeOf[msg] = "inc" ->
         [state |-> (s + 1) % NStates, enqueued |-> <<>>, throw |-> None]
    [] TypeOf[msg] = "reset" ->
         [state |-> 0, enqueued |-> <<>>, throw |-> None]
    [] TypeOf[msg] = "chain" ->
         [state |-> s, enqueued |-> <<"inc">>, throw |-> None]
    [] TypeOf[msg] = "boom" ->
         [state |-> s, enqueued |-> <<>>, throw |-> UpdateError]

\* forEachUpdate visiting msgs from its last message to its first
forEachUpdateReversed(msgs, s0, q0) ==
  LET n == Len(msgs)
      F[i \in 0..n] ==
        IF i = 0
        THEN [state |-> s0, queue |-> q0, updates |-> <<>>, throw |-> None]
        ELSE LET a == F[i - 1]
                 u == update(a.state, msgs[n + 1 - i])
             IN IF a.throw # None THEN a
                ELSE [state |-> IF u.throw = None THEN u.state ELSE a.state,
                      queue |-> a.queue \o u.enqueued,
                      updates |-> Append(a.updates, msgs[n + 1 - i]),
                      throw |-> u.throw]
  IN F[n]

\* msgs.forEach(msg => { state = update(state, msg, enqueue); }): the state,
\* the new queue and the messages passed to update, until one throws
forEachUpdate(msgs, s0, q0) ==
  LET F[i \in 0..Len(msgs)] ==
        IF i = 0
        THEN [state |-> s0, queue |-> q0, updates |-> <<>>, throw |-> None]
        ELSE LET a == F[i - 1]
                 u == update(a.state, msgs[i])
             IN IF a.throw # None THEN a
                ELSE [state |-> IF u.throw = None THEN u.state ELSE a.state,
                      queue |-> a.queue \o u.enqueued,
                      updates |-> Append(a.updates, msgs[i]),
                      throw |-> u.throw]
  IN F[Len(msgs)]

\* updateState() from `draw();` on, after the forEach left f and draw
\* left d
Updated(f, d, fired) ==
  [state |-> f.state, spec |-> d.spec,
   queue |-> IF d.script = <<>> THEN f.queue ELSE f.queue \o fired,
   root |-> d.root, throw |-> d.throw, updates |-> f.updates,
   draws |-> 1, script |-> d.script, calls |-> d.calls,
   registered |-> IF d.throw = None THEN 1 ELSE 0]

\* updateState() after `msgs.forEach(...)` left f: a throw of update ends
\* it there
Folded(f, sp, rootNode, fired) ==
  IF f.throw # None
  THEN [state |-> f.state, spec |-> sp, queue |-> f.queue,
        root |-> rootNode, throw |-> f.throw, updates |-> f.updates,
        draws |-> 0, script |-> <<>>, calls |-> 0, registered |-> 0]
  ELSE Updated(f, draw(rootNode, sp, view(f.state)), fired)

\* updateState without `queue = [];`: msgs and queue stay one array
updateStateKeepsQueue(s, sp, q, rootNode, fired) ==
  IF Len(q) > 0
  THEN Folded(forEachUpdate(q, s, q), sp, rootNode, fired)
  ELSE [state |-> s, spec |-> sp, queue |-> q, root |-> rootNode,
        throw |-> None, updates |-> <<>>, draws |-> 0, script |-> <<>>,
        calls |-> 0, registered |-> 1]

\* updateState with window.requestAnimationFrame(updateState) moved inside
\* `if (queue.length > 0)`
updateStateIdleStops(s, sp, q, rootNode, fired) ==
  IF Len(q) > 0
  THEN Folded(forEachUpdate(q, s, <<>>), sp, rootNode, fired)
  ELSE [state |-> s, spec |-> sp, queue |-> q, root |-> rootNode,
        throw |-> None, updates |-> <<>>, draws |-> 0, script |-> <<>>,
        calls |-> 0, registered |-> 0]

\* updateState with `draw();` moved out of `if (queue.length > 0)`: an
\* empty queue is folded (nothing to fold) and drawn all the same
updateStateAlwaysDraws(s, sp, q, rootNode, fired) ==
  Folded(forEachUpdate(q, s, <<>>), sp, rootNode, fired)

\* updateState with one more window.requestAnimationFrame(updateState)
\* inside `if (queue.length > 0)`
updateStateRegistersTwice(s, sp, q, rootNode, fired) ==
  IF Len(q) > 0
  THEN [Folded(forEachUpdate(q, s, <<>>), sp, rootNode, fired)
          EXCEPT !.registered = @ + 1]
  ELSE [state |-> s, spec |-> sp, queue |-> q, root |-> rootNode,
        throw |-> None, updates |-> <<>>, draws |-> 0, script |-> <<>>,
        calls |-> 0, registered |-> 1]

\* updateState with `queue = [];` after the forEach instead of before it:
\* what update passed to enqueue is thrown away with the batch
updateStateResetsLate(s, sp, q, rootNode, fired) ==
  IF Len(q) > 0
  THEN Folded([forEachUpdate(q, s, <<>>) EXCEPT !.queue = <<>>],
              sp, rootNode, fired)
  ELSE [state |-> s, spec |-> sp, queue |-> q, root |-> rootNode,
        throw |-> None, updates |-> <<>>, draws |-> 0, script |-> <<>>,
        calls |-> 0, registered |-> 1]

\* updateState() run with the state s, previous spec sp, queue q and root
\* rootNode; `fired` are the messages that listeners run by the DOM
\* during apply pass to enqueue.  registered counts the calls of
\* window.requestAnimationFrame(updateState).
updateState(s, sp, q, rootNode, fired) ==
  IF Len(q) > 0
  THEN Folded(forEachUpdate(q, s, <<>>), sp, rootNode, fired)
  ELSE [state |-> s, spec |-> sp, queue |-> q, root |-> rootNode,
        throw |-> None, updates |-> <<>>, draws |-> 0, script |-> <<>>,
        calls |-> 0, registered |-> 1]

-----------------------------------------------------------------------------
(* The mounted loop *)

MaxQueue == 2

\* The message log is kept up to this many messages passed to enqueue
MaxSent == 4

\* Listeners are never unregistered (see removeEventListener in modify), so
\* an element kept across draws gathers them without limit; the model stops
\* a run when a draw would leave an element with more than this many.
MaxListeners == 3

\* The root nodes init is given: an empty one, and one that already holds
\* a child the page put there.
RootsGiven ==
  {createElement("main"),
   appendChild(createElement("main"), createTextNode("static"))}

InitialStates == 0..(NStates - 1)

\* The messages the listeners of type `type` on node el pass to enqueue
\* when the DOM dispatches an event of that type to el, in the order
\* the listeners were registered.
Dispatch(el, type) ==
  LET ls == SelectSeq(el.listeners, LAMBDA x : x.type = type)
  IN [i \in 1..Len(ls) |-> ls[i].callback.arrow]

EventTypes == {"click", "input"}

\* The elements among the children of the root
ElementsOf(rootNode) ==
  {i \in 1..Len(rootNode.childNodes) : Has(rootNode.childNodes[i], "tagName")}

\* No child of the root has more than MaxListeners listeners
FewListeners(rootNode) ==
  \A i \in ElementsOf(rootNode) :
     Len(rootNode.childNodes[i].listeners) <= MaxListeners

\* What the listeners of one element may pass to enqueue when run by
\* the DOM while a patch is applied: nothing, or one element's messages.
FiredDuring(rootNode) ==
  {<<>>} \cup {Dispatch(rootNode.childNodes[i], t) :
                 i \in ElementsOf(rootNode), t \in EventTypes}

\* init(root, initialState, update, view): draw(); updateState(); return
\* { enqueue }.  The queue is empty at this first updateState, which only
\* registers the loop.  When draw throws, init throws with it.
Mounted(s0, r0, d) ==
  /\ state = s0
  /\ spec = d.spec
  /\ queue = <<>>
  /\ root = d.root
  /\ pending = IF d.throw = None THEN 1 ELSE 0
  /\ given = r0
  /\ handle = (d.throw = None)
  /\ raised = d.throw
  /\ last = [op |-> "init"]
  /\ script = d.script
  /\ calls = d.calls
  /\ updates = <<>>
  /\ draws = 0
  /\ prev = <<>>
  /\ next = <<>>
  /\ sent = <<>>
  /\ done = <<>>

Init ==
  \E s0 \in InitialStates, r0 \in RootsGiven :
    Mounted(s0, r0, draw(r0, <<>>, view(s0)))

\* enqueue(msg), called through the handle init returned
Enqueue(msg) ==
  /\ handle
  /\ Len(queue) < MaxQueue
  /\ Len(sent) < MaxSent
  /\ queue' = Append(queue, msg)
  /\ sent' = Append(sent, msg)
  /\ raised' = None
  /\ last' = [op |-> "enqueue"]
  /\ UNCHANGED <<state, spec, root, pending, given, handle, script, calls,
                 updates, draws, prev, next, done>>

\* The DOM dispatches an event of type `type` to the i-th child of the
\* root: each of its listeners of that type runs enqueue(msg).
Listener(i, type) ==
  /\ i \in ElementsOf(root)
  /\ Dispatch(root.childNodes[i], type) # <<>>
  /\ Len(queue) + Len(Dispatch(root.childNodes[i], type)) <= MaxQueue
  /\ Len(sent) + Len(Dispatch(root.childNodes[i], type)) <= MaxSent
  /\ queue' = queue \o Dispatch(root.childNodes[i], type)
  /\ sent' = sent \o Dispatch(root.childNodes[i], type)
  /\ raised' = None
  /\ last' = [op |-> "listener", fired |-> Len(Dispatch(root.childNodes[i], type))]
  /\ UNCHANGED <<state, spec, root, pending, given, handle, script, calls,
                 updates, draws, prev, next, done>>

\* The state updateState leaves
Ticked(u, fired) ==
  /\ Len(u.queue) <= MaxQueue
  /\ FewListeners(u.root)
  /\ state' = u.state
  /\ spec' = u.spec
  /\ queue' = u.queue
  /\ root' = u.root
  /\ pending' = pending - 1 + u.registered
  /\ raised' = u.throw
  /\ last' = [op |-> "updateState", state |-> state, queue |-> queue,
              fired |-> IF u.script = <<>> THEN <<>> ELSE fired]
  /\ script' = u.script
  /\ calls' = u.calls
  /\ updates' = u.updates
  /\ draws' = u.draws
  /\ done' = done \o u.updates
  /\ sent' = sent \o forEachUpdate(queue, state, <<>>).queue
                  \o (IF u.script = <<>> THEN <<>> ELSE fired)
  /\ Len(sent') <= MaxSent
  /\ UNCHANGED <<given, handle, prev, next>>

\* The host runs a registered updateState.
Tick ==
  /\ pending > 0
  /\ \E fired \in FiredDuring(root) :
       Ticked(updateState(state, spec, queue, root, fired), fired)

Next ==
  \/ \E msg \in Messages : Enqueue(msg)
  \/ \E i \in 1..3, type \in EventTypes : Listener(i, type)
  \/ Tick

Spec == Init /\ [][Next]_vars

\* updateState run with messages in the queue
Cycle == queue # <<>> /\ Tick

\* The result u of updateState is within the bounds of Ticked
TickFits(u, fired) ==
  /\ Len(u.queue) <= MaxQueue
  /\ FewListeners(u.root)
  /\ Len(sent) + Len(forEachUpdate(queue, state, <<>>).queue)
       + (IF u.script = <<>> THEN 0 ELSE Len(fired)) <= MaxSent

\* ENABLED <<Cycle>>_vars, as a state predicate: an updateState is
\* registered, messages wait, and some run of it is within the bounds
CycleEnabled ==
  /\ pending > 0
  /\ queue # <<>>
  /\ \E fired \in FiredDuring(root) :
       TickFits(updateState(state, spec, queue, root, fired), fired)

\* The loop on a host that keeps running the registered updateState
\* (window.requestAnimationFrame runs its callback before the next
\* repaint): WF_vars(Cycle), written with CycleEnabled for its ENABLED
SpecFair == Spec /\ ([]<>(~CycleEnabled) \/ []<><<Cycle>>_vars)

-----------------------------------------------------------------------------
(* The patch harness: init draws `prev` into an empty root (the first      *)
(* draw, spec = []), then one more draw() runs with view(state) = next.    *)

MaxKids == 2
MaxLen == 4

SeqsUpTo(S, n) == UNION {[1..k -> S] : k \in 0..n}

AttrMaps ==
  { <<>>, [id |-> "x"], [id |-> "y"], [class |-> "y"],
    [class |-> "y", id |-> "x"],
    [onclick |-> "inc"], [onclick |-> "incCopy"], [onclick |-> "reset"],
    [id |-> "x", onclick |-> "inc"], [id |-> "x", onclick |-> "reset"],
    [onClick |-> "inc", onclick |-> "reset"], [oninput |-> "inc"] }

Leaves == {A, B, empty}

\* Elements that differ in their attributes
Flat == {h("div", a, <<A>>) : a \in AttrMaps}

\* Elements that differ in their tags and children
Shaped == {h(t, <<>>, k) : t \in {"div", "span"}, k \in SeqsUpTo(Leaves, MaxKids)}

\* Elements whose child is an element
Nested == {h("div", [id |-> "x"], <<e>>) : e \in Flat}

\* Elements without children
Bare == {h("div", a, <<>>) : a \in {[id |-> "x"], [class |-> "y"]}}

Nodes == {A, B} \cup Flat \cup Shaped \cup Nested \cup Bare

\* The lists of one node, the lists of up to two text, empty and element
\* nodes, and the longer lists of text and empty nodes
Singles == {<<n>> : n \in Nodes}
Pairs == SeqsUpTo({A, empty, h("div", [id |-> "x"], <<A>>), h("div", <<>>, <<B>>)}, 2)
Longer == SeqsUpTo(Leaves, MaxLen)

PatchInputs ==
  (Singles \X Singles) \cup (Pairs \X Pairs) \cup (Longer \X Longer)

PatchInit ==
  /\ \E input \in PatchInputs : prev = input[1] /\ next = input[2]
  /\ state = 0
  /\ spec = <<>>
  /\ queue = <<>>
  /\ root = createElement("main")
  /\ pending = 0
  /\ given = createElement("main")
  /\ handle = FALSE
  /\ raised = None
  /\ last = [op |-> "start"]
  /\ script = <<>>
  /\ calls = 0
  /\ updates = <<>>
  /\ draws = 0
  /\ sent = <<>>
  /\ done = <<>>

\* The state a draw() leaves
Redrawn(d, op) ==
  /\ root' = d.root
  /\ spec' = d.spec
  /\ raised' = d.throw
  /\ script' = d.script
  /\ calls' = d.calls
  /\ last' = [op |-> op, root |-> root]
  /\ UNCHANGED <<state, queue, pending, given, handle, updates, draws, prev, next,
                 sent, done>>

\* The draw() of init, with view(initialState) = prev
Mount ==
  /\ last.op = "start"
  /\ Redrawn(draw(root, spec, [spec |-> prev, throw |-> None]), "mount")

\* The draw() of a later cycle, with view(state) = next
Redraw ==
  /\ last.op = "mount"
  /\ raised = None
  /\ Redrawn(draw(root, spec, [spec |-> next, throw |-> None]), "redraw")

PatchNext == Mount \/ Redraw

SpecPatch == PatchInit /\ [][PatchNext]_vars

-----------------------------------------------------------------------------
(* What the claims speak of *)

Min(a, b) == IF a < b THEN a ELSE b

\* The live node a spec node describes: its tag or text, its attributes
\* that are not events, and one child per child spec that is not Empty
RECURSIVE Rendered(_)
Rendered(n) ==
  IF Has(n, "textContent") THEN [data |-> n.textContent]
  ELSE LET kids == removeEmpty(n.children)
       IN [tagName |-> n.tag,
           attrs |-> [k \in {x \in DOMAIN n.attributes : eventName(x) = Null}
                        |-> n.attributes[k]],
           childNodes |-> [i \in 1..Len(kids) |-> Rendered(kids[i])]]

RenderedList(specs) ==
  LET kids == removeEmpty(specs)
  IN [i \in 1..Len(kids) |-> Rendered(kids[i])]

\* A live node without its listeners
RECURSIVE Shape(_)
Shape(node) ==
  IF Has(node, "tagName")
  THEN [tagName |-> node.tagName, attrs |-> node.attrs,
        childNodes |-> [i \in 1..Len(node.childNodes) |-> Shape(node.childNodes[i])]]
  ELSE [data |-> node.data]

ShapeList(nodes) == [i \in 1..Len(nodes) |-> Shape(nodes[i])]

\* A handler returned normally last: init, or an updateState
CycleDone ==
  /\ handle
  /\ raised = None
  /\ last.op \in {"init", "updateState"}

\* What a spec node binds to events of type t: the value of its last
\* attribute naming t
Bound(n, t) ==
  LET ks == SelectSeq(Keys(n.attributes), LAMBDA k : eventName(k) = t)
  IN IF ks = <<>> THEN <<>> ELSE <<n.attributes[ks[Len(ks)]]>>

\* The state update leaves after the messages msgs, first to last
RECURSIVE StateAfter(_, _)
StateAfter(s, msgs) ==
  IF msgs = <<>> THEN s
  ELSE StateAfter(update(s, Head(msgs)).state, Tail(msgs))

IsPrefix(a, b) == Len(a) <= Len(b) /\ a = SubSeq(b, 1, Len(a))

\* One "inc" per "chain" message of msgs: what the update calls of the
\* application pass to enqueue
ChainedBy(msgs) ==
  LET cs == SelectSeq(msgs, LAMBDA m : TypeOf[m] = "chain")
  IN [i \in 1..Len(cs) |-> "inc"]

\* A spec tree with every message object replaced by its content
RECURSIVE Canon(_)
Canon(n) ==
  IF Has(n, "tag")
  THEN [tag |-> n.tag,
        attributes |-> [k \in DOMAIN n.attributes |->
                          IF eventName(k) # Null THEN TypeOf[n.attributes[k]]
                          ELSE n.attributes[k]],
        children |-> [i \in 1..Len(n.children) |-> Canon(n.children[i])]]
  ELSE n

\* Two spec lists are equal in structure: equal but for which message
\* objects they hold
StructEq(a, b) ==
  [i \in 1..Len(a) |-> Canon(a[i])] = [i \in 1..Len(b) |-> Canon(b[i])]

\* An edit that changes nothing
IdleEntry(e) ==
  \/ Has(e, "noop")
  \/ /\ Has(e, "modify")
     /\ e.modify.removeAttr = <<>>
     /\ OwnKeys(e.modify.setAttr) = <<>>
     /\ OwnKeys(e.modify.removeListeners) = <<>>
     /\ OwnKeys(e.modify.addListeners) = <<>>
     /\ EveryNoop(e.modify.children)

\* No Create and no Replace of the script, at any depth, holds an Empty node
RECURSIVE NoEmptyCarried(_)
NoEmptyCarried(entries) ==
  \A i \in 1..Len(entries) :
    /\ Has(entries[i], "create") => ~Has(entries[i].create, "empty")
    /\ Has(entries[i], "replace") => ~Has(entries[i].replace, "empty")
    /\ Has(entries[i], "modify") => NoEmptyCarried(entries[i].modify.children)

-----------------------------------------------------------------------------
(* The claims *)

\* C1 (as claimed): with a root that was empty when init got it, after init
\* and after every cycle that returned, the children of the root are the
\* nodes the previous spec describes: same tags, texts, children and
\* attributes.
C1_LiveTreeMatchesSpec ==
  (CycleDone /\ given.childNodes = <<>>)
    => ShapeList(root.childNodes) = RenderedList(spec)

\* C2: an updateState that finds k >= 1 messages passes them all to update,
\* first to last, each on the state the one before left, and calls draw
\* once; two messages m1, m2 leave update(update(S, m1), m2).
C2_BatchFoldedInOrderOneDraw ==
  (last.op = "updateState" /\ last.queue # <<>> /\ raised # UpdateError)
    => /\ updates = last.queue
       /\ state = StateAfter(last.state, last.queue)
       /\ draws = 1
       /\ Len(last.queue) = 2 =>
            state = update(update(last.state, last.queue[1]).state,
                           last.queue[2]).state

C2_Witness ==
  /\ last.op = "updateState"
  /\ last.queue = <<"reset", "inc">>
  /\ last.state = 2
  /\ state = 1
  /\ draws = 1

\* C3: the messages passed to enqueue while an updateState runs (by update,
\* or by a listener run during the patch) are not passed to update by that
\* updateState: it passes the messages the queue held when it started, and
\* the queue it leaves holds exactly the messages enqueued meanwhile.
C3_EnqueuedDuringCycleWaits ==
  (last.op = "updateState" /\ last.queue # <<>>)
    => /\ IsPrefix(updates, last.queue)
       /\ queue = ChainedBy(updates) \o last.fired

C3_Witness ==
  /\ last.op = "updateState"
  /\ updates = <<"chain">>
  /\ last.fired # <<>>
  /\ queue = <<"inc">> \o last.fired

\* C4 (as claimed): whatever happened in it, an updateState leaves the loop
\* registered for the next frame.
C4_AlwaysReregisters == last.op = "updateState" => pending = 1

\* C4 (amended): an updateState that returns, with the queue empty or not,
\* leaves the loop registered once for the next frame; one in which update,
\* view or the patch throws leaves it unregistered.
C4_ReregistersUnlessThrown ==
  last.op = "updateState" => pending = (IF raised = None THEN 1 ELSE 0)

C4_Witness ==
  /\ last.op = "updateState"
  /\ last.queue = <<>>
  /\ raised = None
  /\ pending = 1

\* C5 (as claimed): after any cycles, an event dispatched to a live element
\* enqueues exactly the one message the previous spec binds to that event,
\* and nothing when the spec binds none.
C5_OneListenerPerEvent ==
  (CycleDone /\ given.childNodes = <<>>)
    => \A i \in ElementsOf(root), t \in EventTypes :
          i <= Len(removeEmpty(spec))
            => Dispatch(root.childNodes[i], t) = Bound(removeEmpty(spec)[i], t)

\* C6 (as claimed): a script shorter than the child list of the node it is
\* applied to, the root included, makes the patch throw; no draw returns
\* leaving more children than its script has entries.
C6_ShortScriptThrows ==
  /\ (last.op = "init" /\ Len(script) < Len(given.childNodes))
       => raised # None
  /\ (last.op \in {"init", "updateState"} /\ raised = None /\ script # <<>>)
       => Len(root.childNodes) <= Len(script)

\* C7 (as claimed): for two elements of one tag, diffOne is a Noop only if
\* the attributes, the listeners and the children are all unchanged.
C7_NoopOnlyWithoutDelta ==
  last.op = "redraw" =>
    \A i \in 1..Min(Len(removeEmpty(prev)), Len(removeEmpty(next))) :
      LET l == removeEmpty(prev)[i]
          r == removeEmpty(next)[i]
      IN (Has(l, "tag") /\ Has(r, "tag") /\ l.tag = r.tag /\ Has(script[i], "noop"))
           => l.attributes = r.attributes

\* C8: the diff of two spec lists equal in structure changes nothing: each
\* entry is a Noop, or a Modify with nothing to remove, set, unbind or
\* bind and only Noop children.
C8_EqualSpecsDiffIdle ==
  (last.op = "redraw" /\ StructEq(prev, next))
    => \A i \in 1..Len(script) : IdleEntry(script[i])

C8_Witness ==
  /\ last.op = "redraw"
  /\ StructEq(prev, next)
  /\ prev # next
  /\ script # <<>>

\* C9: applying diff(T, T) to the live tree made from T makes no DOM call
\* and leaves the tree as it was.
C9_SameSpecPatchInert ==
  (last.op = "redraw" /\ prev = next)
    => /\ calls = 0
       /\ root = last.root
       /\ raised = None

C9_Witness ==
  /\ last.op = "redraw"
  /\ prev = <<h("div", [id |-> "x", onclick |-> "inc"], <<A>>)>>
  /\ next = prev
  /\ calls = 0
  /\ Len(root.childNodes) = 1

\* C10: diffList gives the same script with the Empty nodes of its two
\* lists taken out, as long as the longer of the two filtered lists, and
\* no Create or Replace of a script holds an Empty node.
C10_EmptyTransparent ==
  last.op = "redraw" =>
    /\ script = diffList(removeEmpty(prev), removeEmpty(next))
    /\ Len(script) = Max(Len(removeEmpty(prev)), Len(removeEmpty(next)))
    /\ NoEmptyCarried(script)

C10_Witness ==
  /\ last.op = "redraw"
  /\ prev = <<empty, A, empty, B>>
  /\ next = <<A, B>>
  /\ script = <<[noop |-> TRUE], [noop |-> TRUE]>>

\* The map an object built by assignments is: each key to its value
AsMap(obj) ==
  [k \in {obj[i].key : i \in 1..Len(obj)} |->
     (CHOOSE e \in {obj[i] : i \in 1..Len(obj)} : e.key = k).value]

\* The names of the attributes of a spec element that are not events
NonEvents(n) == {k \in DOMAIN n.attributes : eventName(k) = Null}

\* The entries of a script that are Creates, and those that are Removes
CreatesOf(entries) == {i \in 1..Len(entries) : Has(entries[i], "create")}
RemovesOf(entries) == {i \in 1..Len(entries) : Has(entries[i], "remove")}

\* C11: the script diffList gives for prev and next has one entry per
\* index of the longer filtered list: Create(next[i]) past the end of prev,
\* Remove past the end of next, diffOne(prev[i], next[i]) elsewhere; so
\* [A] to [A, B] gives [Noop, Create(B)] and [A, B] to [A] gives
\* [Noop, Remove]; Creates and Removes sit at the tail and never together.
C11_IndexwiseTailOnly ==
  last.op = "redraw" =>
    LET p == removeEmpty(prev)
        n == removeEmpty(next)
        both == Min(Len(p), Len(n))
    IN /\ Len(script) = Max(Len(p), Len(n))
       /\ \A i \in 1..Len(script) :
            script[i] = IF i > Len(p) THEN [create |-> n[i]]
                        ELSE IF i > Len(n) THEN [remove |-> TRUE]
                        ELSE diffOne(p[i], n[i])
       /\ CreatesOf(script) \cup RemovesOf(script) = (both + 1)..Len(script)
       /\ CreatesOf(script) = {} \/ RemovesOf(script) = {}
       /\ (prev = <<A>> /\ next = <<A, B>>)
            => script = <<[noop |-> TRUE], [create |-> B]>>
       /\ (prev = <<A, B>> /\ next = <<A>>)
            => script = <<[noop |-> TRUE], [remove |-> TRUE]>>

C11_Witness ==
  /\ last.op = "redraw"
  /\ prev = <<A, B>>
  /\ next = <<A>>
  /\ script = <<[noop |-> TRUE], [remove |-> TRUE]>>
  /\ Len(root.childNodes) = 1

\* C12: for two elements of one tag, removeAttr holds exactly the
\* non-event attribute names of prev that next lacks, and setAttr maps
\* exactly the non-event names of next that prev lacks or holds with
\* another value to next's value; div{id: "x"} against div{class: "y"},
\* both childless, gives Modify(["id"], {class: "y"}, {}, {}, []).
C12_AttributeDelta ==
  last.op = "redraw" =>
    /\ \A i \in 1..Min(Len(removeEmpty(prev)), Len(removeEmpty(next))) :
         LET l == removeEmpty(prev)[i]
             r == removeEmpty(next)[i]
         IN (Has(l, "tag") /\ Has(r, "tag") /\ l.tag = r.tag) =>
              LET gone == {k \in NonEvents(l) : k \notin DOMAIN r.attributes}
                  changed == {k \in NonEvents(r) :
                                \/ k \notin DOMAIN l.attributes
                                \/ l.attributes[k] # r.attributes[k]}
              IN IF Has(script[i], "modify")
                 THEN LET m == script[i].modify
                      IN /\ {m.removeAttr[j] : j \in 1..Len(m.removeAttr)} = gone
                         /\ Len(m.removeAttr) = Cardinality(gone)
                         /\ AsMap(m.setAttr) = [k \in changed |-> r.attributes[k]]
                         /\ Len(m.setAttr) = Cardinality(changed)
                 ELSE Has(script[i], "noop") /\ gone = {} /\ changed = {}
    /\ (/\ prev = <<h("div", [id |-> "x"], <<>>)>>
        /\ next = <<h("div", [class |-> "y"], <<>>)>>)
         => script = <<[modify |->
                          [removeAttr |-> <<"id">>,
                           setAttr |-> <<[key |-> "class", value |-> "y"]>>,
                           removeListeners |-> <<>>, addListeners |-> <<>>,
                           children |-> <<>>]]>>

C12_Witness ==
  /\ last.op = "redraw"
  /\ prev = <<h("div", [id |-> "x"], <<>>)>>
  /\ next = <<h("div", [class |-> "y"], <<>>)>>
  /\ Has(script[1], "modify")
  /\ script[1].modify.removeAttr = <<"id">>
  /\ script[1].modify.setAttr = <<[key |-> "class", value |-> "y"]>>

\* C13: diffOne gives Replace(next) for two elements of different tags,
\* whatever their attributes and children, and whenever one side is a
\* text node, unless both are text nodes of equal content, which give Noop.
C13_ReplaceOnKindChange ==
  last.op = "redraw" =>
    \A i \in 1..Min(Len(removeEmpty(prev)), Len(removeEmpty(next))) :
      LET l == removeEmpty(prev)[i]
          r == removeEmpty(next)[i]
      IN IF Has(l, "textContent") \/ Has(r, "textContent")
         THEN IF /\ Has(l, "textContent")
                 /\ Has(r, "textContent")
                 /\ l.textContent = r.textContent
              THEN script[i] = [noop |-> TRUE]
              ELSE script[i] = [replace |-> r]
         ELSE l.tag # r.tag => script[i] = [replace |-> r]

C13_Witness ==
  /\ last.op = "redraw"
  /\ prev = <<h("div", <<>>, <<A>>)>>
  /\ next = <<h("span", <<>>, <<A>>)>>
  /\ script = <<[replace |-> h("span", <<>>, <<A>>)]>>
  /\ root.childNodes[1].tagName = "span"

\* C14: an updateState that finds the queue empty calls neither update nor
\* view, diffs and patches nothing, and leaves the state, the previous
\* spec and the live tree as they were; all it does is register the loop
\* for the next frame.
C14_IdleTickInert ==
  [][(queue = <<>> /\ last'.op = "updateState")
       => /\ state' = state
          /\ spec' = spec
          /\ root' = root
          /\ queue' = <<>>
          /\ updates' = <<>>
          /\ draws' = 0
          /\ script' = <<>>
          /\ calls' = 0
          /\ raised' = None
          /\ pending' = 1]_vars

C14_Witness ==
  /\ last.op = "updateState"
  /\ last.queue = <<>>
  /\ state = 2
  /\ Len(root.childNodes) = 1
  /\ draws = 0
  /\ calls = 0

\* C15 (as claimed): create gives an element one child per child spec that
\* is not Empty, built from that child spec, in order, wherever the Empty
\* ones sit in the list: the first draw of a spec list never throws and
\* builds the nodes the list describes.
C15_CreateSkipsEmpty ==
  last.op = "mount" =>
    /\ raised = None
    /\ ShapeList(root.childNodes) = RenderedList(prev)

\* C16 (as claimed): after a Modify is applied to a live element, no name
\* of its removeAttr is an attribute of the element, every name of its
\* setAttr has the value given, and every other attribute is as it was.
C16_ModifySetsAndRemoves ==
  (last.op = "redraw" /\ raised = None) =>
    \A i \in 1..Len(script) :
      Has(script[i], "modify") =>
        LET m == script[i].modify
            before == last.root.childNodes[i].attrs
            after == root.childNodes[i].attrs
            removed == {m.removeAttr[j] : j \in 1..Len(m.removeAttr)}
        IN /\ \A a \in removed : a \notin DOMAIN after
           /\ \A a \in DOMAIN AsMap(m.setAttr) :
                a \in DOMAIN after /\ after[a] = AsMap(m.setAttr)[a]
           /\ \A a \in (DOMAIN before \cup DOMAIN after)
                         \ (removed \cup DOMAIN AsMap(m.setAttr)) :
                /\ a \in DOMAIN before
                /\ a \in DOMAIN after
                /\ before[a] = after[a]

\* C17 (as claimed): applying diffList(prev, next) to the live tree built
\* from prev never throws, with Empty nodes anywhere in the children lists.
C17_PatchNeverThrows == last.op = "redraw" => raised = None

\* C18: the previous spec is replaced by the new one only once the patch
\* for the new one has been applied and returned: an updateState in which
\* update, view or the patch throws leaves the previous spec as it was,
\* and one that draws and returns leaves the spec view gave for the new
\* state.
C18_SpecReplacedAfterPatch ==
  [][last'.op = "updateState"
       => IF raised' = None /\ draws' = 1
          THEN spec' = view(state').spec
          ELSE spec' = spec]_vars

C18_Witness ==
  /\ last.op = "updateState"
  /\ raised = TypeError
  /\ state # last.state
  /\ spec # <<>>
  /\ spec = view(last.state).spec
  /\ spec # view(state).spec

\* C20: at most one updateState is registered with
\* window.requestAnimationFrame at any time, and a call of enqueue, through
\* the handle or from a listener, registers none.
C20_OneRegistration ==
  /\ [](pending <= 1)
  /\ [][last'.op \in {"enqueue", "listener"} => pending' = pending]_vars

C20_Witness ==
  /\ last.op = "updateState"
  /\ "chain" \in {updates[i] : i \in 1..Len(updates)}
  /\ last.fired # <<>>
  /\ Len(queue) = 2
  /\ pending = 1

\* The model follows the loop no further: messages wait, and the next
\* updateState would take the message log, the queue or an element's
\* listeners past their bounds
Horizon == pending > 0 /\ queue # <<>> /\ ~CycleEnabled

\* C19: while no cycle has thrown, the messages passed to update so far,
\* followed by those waiting in the queue, are exactly the messages passed
\* to enqueue so far, in the order they were enqueued (none dropped, none
\* twice, none out of order, across cycles); and on a host that keeps
\* running updateState, the n-th message enqueued is in the end passed to
\* update, unless a cycle throws first.
C19_EveryMessageUpdatedInOrder ==
  /\ [](pending > 0 => sent = done \o queue)
  /\ \A n \in 1..MaxSent :
       (Len(sent) >= n /\ pending > 0)
         ~> (Len(done) >= n \/ pending = 0 \/ Horizon)

C19_Witness ==
  /\ sent = <<"chain", "inc", "reset">>
  /\ done = sent
  /\ queue = <<>>
  /\ pending = 1
  /\ last.op = "updateState"
  /\ last.queue = <<"inc", "reset">>

====
